---- MODULE Spec2Model ----
(***************************************************************************)
(* Model of the todoist_rest data model (src/src/model/task.rs): the Due   *)
(* value, the Task entity with its mutators, the hand-written Serialize    *)
(* impl (write model) and the derived Deserialize impls (read model).      *)
(*                                                                         *)
(* Option<T> is a sequence of length at most one: None is <<>> and Some(v) *)
(* is <<v>>.  A JSON value is a pair <<type, value>>; a JSON object holds the *)
(* sequence of its <<key, value>> entries in wire order.                   *)
(***************************************************************************)
EXTENDS Integers, Sequences, FiniteSets, TLC

VARIABLES
    task,             \* the client's Task value
    due,              \* the client's Due value (what set_due hands to the task)
    result,           \* the latest call: its name, argument, status and output
    model_label_ids   \* label_ids as the reference model of add/remove has it

vars == <<task, due, result, model_label_ids>>

(* ------------------------------ bounds -------------------------------- *)

\* longest label_ids vector add_label_id is allowed to build
MaxLabels == 3

\* how many edits deep the decoded wire documents are taken from the base ones
MaxEdits == 1

(* --------------------------- Option and JSON --------------------------- *)

None == <<>>

Some(v) == <<v>>

IsSome(o) == Len(o) = 1

Unwrap(o) == o[1]

JNull == <<"null", 0>>

JBool(b) == <<"bool", b>>

JNum(n) == <<"num", n>>

JStr(s) == <<"str", s>>

JArr(s) == <<"arr", s>>

JObj(entries) == <<"obj", entries>>

JType(j) == j[1]

JVal(j) == j[2]

\* serde_json output of an Option<u32>: null or the number
SerOptionU32(o) == IF IsSome(o) THEN JNum(Unwrap(o)) ELSE JNull

\* serde_json output of a Vec<u32>: the array of its numbers, in order
SerVecU32(s) == JArr([i \in 1..Len(s) |-> JNum(s[i])])

(* ------------------------------- Due ----------------------------------- *)

DueCreate(string) ==
    [string |-> string, date |-> None, datetime |-> None, timezone |-> None]

\* set_string forgetting to clear the date
MutSetStringKeepsDate(d, string) ==
    [d EXCEPT !.string = string, !.datetime = None, !.timezone = None]

set_string(d, string) ==
    [d EXCEPT !.string = string, !.date = None, !.datetime = None,
              !.timezone = None]

\* set_date forgetting to clear the timezone
MutSetDateKeepsTimezone(d, date) ==
    [d EXCEPT !.string = date, !.date = Some(date), !.datetime = None]

set_date(d, date) ==
    [d EXCEPT !.string = date, !.date = Some(date), !.datetime = None,
              !.timezone = None]

\* set_datetime forgetting to mirror the datetime into string
MutSetDatetimeKeepsString(d, datetime) ==
    [d EXCEPT !.date = None, !.datetime = Some(datetime), !.timezone = None]

set_datetime(d, datetime) ==
    [d EXCEPT !.string = datetime, !.date = None, !.datetime = Some(datetime),
              !.timezone = None]

(* ------------------------------- Task ---------------------------------- *)

\* create leaving priority at the integer default
MutTaskCreateZeroPriority(content) ==
    [id |-> None, project_id |-> None, content |-> content,
     completed |-> FALSE, label_ids |-> <<>>, order |-> None, indent |-> None,
     priority |-> 0, due |-> None, url |-> None, comment_count |-> None]

TaskCreate(content) ==
    [id |-> None, project_id |-> None, content |-> content,
     completed |-> FALSE, label_ids |-> <<>>, order |-> None, indent |-> None,
     priority |-> 1, due |-> None, url |-> None, comment_count |-> None]

set_due(t, d) == [t EXCEPT !.due = d]

\* the match arm 1...4 of set_priority; every other value panics
PriorityInRange(priority) == priority >= 1 /\ priority <= 4

set_priority(t, priority) ==
    IF PriorityInRange(priority)
    THEN [panicked |-> FALSE, task |-> [t EXCEPT !.priority = priority]]
    ELSE [panicked |-> TRUE, task |-> t]

RECURSIVE RemoveFirst(_, _)
RemoveFirst(s, x) ==
    IF s = <<>> THEN <<>>
    ELSE IF Head(s) = x THEN Tail(s)
    ELSE <<Head(s)>> \o RemoveFirst(Tail(s), x)

\* remove_label_id deleting the first occurrence only
MutRemoveFirstLabelId(t, label_id) ==
    [t EXCEPT !.label_ids = RemoveFirst(@, label_id)]

\* Vec::retain(|&id| id != label_id): keeps, in order, the ids that differ
remove_label_id(t, label_id) ==
    [t EXCEPT !.label_ids = SelectSeq(@, LAMBDA id : id # label_id)]

\* Vec::push
add_label_id(t, label_id) == [t EXCEPT !.label_ids = Append(@, label_id)]

\* set_content rebuilding the task from its constructor
MutSetContentRebuilds(t, content) ==
    [id |-> None, project_id |-> None, content |-> content,
     completed |-> FALSE, label_ids |-> <<>>, order |-> None, indent |-> None,
     priority |-> 1, due |-> None, url |-> None, comment_count |-> None]

set_content(t, content) == [t EXCEPT !.content = content]

set_completed(t, completed) == [t EXCEPT !.completed = completed]

(* --------------------------- Serialize for Task ------------------------ *)

\* serialize testing date before datetime
MutSerializeDueDateFirst(t) ==
    IF IsSome(t.due)
    THEN LET d == Unwrap(t.due) IN
         IF IsSome(d.date)
         THEN << <<"due_date", JStr(Unwrap(d.date))>> >>
         ELSE IF IsSome(d.datetime)
              THEN << <<"due_datetime", JStr(Unwrap(d.datetime))>> >>
              ELSE << <<"due_string", JStr(d.string)>>,
                      <<"due_lang", JStr("en")>> >>
    ELSE <<>>

\* the second match of serialize: the due fields, by precedence
SerializeDue(t) ==
    IF IsSome(t.due)
    THEN LET d == Unwrap(t.due) IN
         IF IsSome(d.datetime)
         THEN << <<"due_datetime", JStr(Unwrap(d.datetime))>> >>
         ELSE IF IsSome(d.date)
              THEN << <<"due_date", JStr(Unwrap(d.date))>> >>
              ELSE << <<"due_string", JStr(d.string)>>,
                      <<"due_lang", JStr("en")>> >>
    ELSE <<>>

\* the first match of serialize: the field count announced to the serializer
SerializeLen(t) ==
    IF IsSome(t.due)
    THEN LET d == Unwrap(t.due) IN
         IF IsSome(d.datetime) THEN 6
         ELSE IF IsSome(d.date) THEN 6 ELSE 7
    ELSE 5

\* serialize emitting the struct's fields as a derived impl would start: id first
MutSerializeHeadWithId(t) ==
    << <<"id", SerOptionU32(t.id)>>,
       <<"content", JStr(t.content)>>,
       <<"project_id", SerOptionU32(t.project_id)>>,
       <<"order", SerOptionU32(t.order)>>,
       <<"label_ids", SerVecU32(t.label_ids)>>,
       <<"priority", JNum(t.priority)>> >>

\* serialize emitting completed as well
MutSerializeWithCompleted(t) ==
    << <<"content", JStr(t.content)>>,
       <<"completed", JBool(t.completed)>>,
       <<"project_id", SerOptionU32(t.project_id)>>,
       <<"order", SerOptionU32(t.order)>>,
       <<"label_ids", SerVecU32(t.label_ids)>>,
       <<"priority", JNum(t.priority)>> >> \o SerializeDue(t)

\* the five fields every write model starts with
SerializeHead(t) ==
    << <<"content", JStr(t.content)>>,
       <<"project_id", SerOptionU32(t.project_id)>>,
       <<"order", SerOptionU32(t.order)>>,
       <<"label_ids", SerVecU32(t.label_ids)>>,
       <<"priority", JNum(t.priority)>> >>

\* serde_json::to_string(&task): the entries of the emitted object, in order
Serialize(t) == SerializeHead(t) \o SerializeDue(t)

(* ------------------- derived Deserialize (serde_json) ------------------ *)

Ok(v) == [ok |-> TRUE, val |-> v]

Err(kind, field) == [ok |-> FALSE, kind |-> kind, field |-> field]

\* struct Due: its fields and their types, in declaration order
DueSchema ==
    << <<"string", "string">>, <<"date", "opt_string">>,
       <<"datetime", "opt_string">>, <<"timezone", "opt_string">> >>

\* struct Task: its fields and their types, in declaration order
TaskSchema ==
    << <<"id", "opt_u32">>, <<"project_id", "opt_u32">>,
       <<"content", "string">>, <<"completed", "bool">>,
       <<"label_ids", "vec_u32">>, <<"order", "opt_u32">>,
       <<"indent", "opt_u32">>, <<"priority", "u32">>, <<"due", "opt_due">>,
       <<"url", "opt_string">>, <<"comment_count", "opt_u32">> >>

FieldNames(schema) == {schema[i][1] : i \in 1..Len(schema)}

FieldType(schema, name) ==
    LET i == CHOOSE k \in 1..Len(schema) : schema[k][1] = name
    IN  schema[i][2]

\* Option<T> fields: a missing key deserializes to None instead of failing
IsOptionType(ty) == ty \in {"opt_u32", "opt_string", "opt_due"}

InnerType(ty) ==
    CASE ty = "opt_u32" -> "u32"
      [] ty = "opt_string" -> "string"
      [] ty = "opt_due" -> "due"

MakeDue(vals) ==
    [string |-> vals["string"], date |-> vals["date"],
     datetime |-> vals["datetime"], timezone |-> vals["timezone"]]

MakeTask(vals) ==
    [id |-> vals["id"], project_id |-> vals["project_id"],
     content |-> vals["content"], completed |-> vals["completed"],
     label_ids |-> vals["label_ids"], order |-> vals["order"],
     indent |-> vals["indent"], priority |-> vals["priority"],
     due |-> vals["due"], url |-> vals["url"],
     comment_count |-> vals["comment_count"]]

\* u32 parsing without the range check
MutParseU32NoRange(j) ==
    IF JType(j) # "num" THEN Err("invalid type", "") ELSE Ok(JVal(j))

\* u32 from a JSON number; the wire numbers of the model stay below 2^31, so
\* only the lower end of the u32 range is exercised
ParseU32(j) ==
    IF JType(j) # "num" THEN Err("invalid type", "")
    ELSE IF JVal(j) < 0 THEN Err("invalid value", "")
    ELSE Ok(JVal(j))

ParseString(j) == IF JType(j) = "str" THEN Ok(JVal(j)) ELSE Err("invalid type", "")

ParseBool(j) == IF JType(j) = "bool" THEN Ok(JVal(j)) ELSE Err("invalid type", "")

RECURSIVE ParseSeqU32(_, _, _)
\* Vec<u32>: the elements left to right, failing at the first that is no u32
ParseSeqU32(arr, i, acc) ==
    IF i > Len(arr) THEN Ok(acc)
    ELSE LET r == ParseU32(arr[i]) IN
         IF r.ok THEN ParseSeqU32(arr, i + 1, Append(acc, r.val)) ELSE r

RECURSIVE Parse(_, _)
RECURSIVE VisitMap(_, _, _, _, _)
RECURSIVE VisitSeq(_, _, _, _)
RECURSIVE FinishMap(_, _, _, _)

\* after the last entry: a field never seen is None when it is an Option and
\* a "missing field" error otherwise, the fields taken in declaration order
FinishMap(schema, i, seen, vals) ==
    IF i > Len(schema) THEN Ok(vals)
    ELSE LET name == schema[i][1]
             ty == schema[i][2]
         IN  IF name \in seen THEN FinishMap(schema, i + 1, seen, vals)
             ELSE IF IsOptionType(ty)
                  THEN FinishMap(schema, i + 1, seen, (name :> None) @@ vals)
                  ELSE Err("missing field", name)

\* the derived visit_map: the entries in wire order; a key that names no
\* field is skipped, a key seen before is a "duplicate field" error, and the
\* first value that does not parse ends the visit with its error
VisitMap(schema, entries, i, seen, vals) ==
    IF i > Len(entries) THEN FinishMap(schema, 1, seen, vals)
    ELSE LET key == entries[i][1]
             j == entries[i][2]
         IN  IF key \notin FieldNames(schema)
             THEN VisitMap(schema, entries, i + 1, seen, vals)
             ELSE IF key \in seen THEN Err("duplicate field", key)
             ELSE LET r == Parse(FieldType(schema, key), j) IN
                  IF r.ok
                  THEN VisitMap(schema, entries, i + 1, seen \cup {key},
                                (key :> r.val) @@ vals)
                  ELSE r

\* the derived visit_seq (serde_json also accepts a struct as an array): the
\* fields by position; too few elements is "invalid length", too many is
\* serde_json's "trailing characters"
VisitSeq(schema, arr, i, vals) ==
    IF i > Len(schema)
    THEN IF Len(arr) > Len(schema) THEN Err("trailing characters", "")
         ELSE Ok(vals)
    ELSE IF i > Len(arr) THEN Err("invalid length", "")
    ELSE LET r == Parse(schema[i][2], arr[i]) IN
         IF r.ok
         THEN VisitSeq(schema, arr, i + 1, (schema[i][1] :> r.val) @@ vals)
         ELSE r

\* a struct from a JSON object or array
ParseStruct(schema, j) ==
    IF JType(j) = "obj" THEN VisitMap(schema, JVal(j), 1, {}, <<>>)
    ELSE IF JType(j) = "arr" THEN VisitSeq(schema, JVal(j), 1, <<>>)
    ELSE Err("invalid type", "")

\* one field value, by the field's Rust type
Parse(ty, j) ==
    CASE ty = "u32" -> ParseU32(j)
      [] ty = "string" -> ParseString(j)
      [] ty = "bool" -> ParseBool(j)
      [] ty = "vec_u32" ->
            IF JType(j) = "arr" THEN ParseSeqU32(JVal(j), 1, <<>>)
            ELSE Err("invalid type", "")
      [] ty = "due" ->
            LET r == ParseStruct(DueSchema, j) IN
            IF r.ok THEN Ok(MakeDue(r.val)) ELSE r
      [] IsOptionType(ty) ->
            IF JType(j) = "null" THEN Ok(None)
            ELSE LET r == Parse(InnerType(ty), j) IN
                 IF r.ok THEN Ok(Some(r.val)) ELSE r

\* serde_json::from_str::<Due>
DeserializeDue(j) == Parse("due", j)

\* serde_json::from_str::<Task>
DeserializeTask(j) ==
    LET r == ParseStruct(TaskSchema, j) IN
    IF r.ok THEN Ok(MakeTask(r.val)) ELSE r

(* ------------------------------ inputs --------------------------------- *)

Contents == {"Test Task", "My task"}

DueTexts == {"tomorrow at noon", "2017-12-25"}

LabelIds == {1, 4, 10}

\* arguments tried on set_priority: the range 1...4 and its two neighbours
Priorities == 0..5

\* the due object of tests::deserialize_task
WireDueFull ==
    JObj(<< <<"date", JStr("2016-09-01")>>, <<"recurring", JBool(TRUE)>>,
            <<"datetime", JStr("2016-09-01T09:00:00Z")>>,
            <<"string", JStr("tomorrow at 12")>>,
            <<"timezone", JStr("Europe/Moscow")>> >>)

\* the document of tests::deserialize_task
WireFull ==
    JObj(<< <<"comment_count", JNum(10)>>, <<"completed", JBool(TRUE)>>,
            <<"content", JStr("My task")>>, <<"due", WireDueFull>>,
            <<"id", JNum(1234)>>, <<"indent", JNum(1)>>,
            <<"label_ids", JArr(<<JNum(124), JNum(125)>>)>>,
            <<"order", JNum(123)>>, <<"priority", JNum(1)>>,
            <<"project_id", JNum(2345)>>,
            <<"url", JStr("https://todoist.com/showTask?id=12345")>> >>)

\* a document holding the required fields only
WireMinimal ==
    JObj(<< <<"content", JStr("Test Task")>>, <<"completed", JBool(FALSE)>>,
            <<"priority", JNum(1)>>, <<"label_ids", JArr(<<>>)>> >>)

ReplaceAt(entries, i, j) == [entries EXCEPT ![i] = <<entries[i][1], j>>]

RemoveAt(entries, i) ==
    [k \in 1..(Len(entries) - 1) |->
        IF k < i THEN entries[k] ELSE entries[k + 1]]

Reverse(entries) ==
    [k \in 1..Len(entries) |-> entries[Len(entries) + 1 - k]]

Keys(entries) == {entries[i][1] : i \in 1..Len(entries)}

ReplaceKey(entries, key, j) ==
    [i \in 1..Len(entries) |->
        IF entries[i][1] = key THEN <<key, j>> ELSE entries[i]]

RemoveKey(entries, key) == SelectSeq(entries, LAMBDA e : e[1] # key)

\* values of every JSON type, put in place of a field's value
BasicAlts ==
    { JNull, JBool(FALSE), JNum(3), JNum(-1), JStr("x"),
      JArr(<<JNum(4), JNum(4)>>), JArr(<<JNum(4), JStr("x")>>),
      JObj(<< <<"string", JStr("x")>> >>) }

\* due values: the full object less one key, with one value replaced, and the
\* positional (array) form serde_json accepts for a struct
DueAlts ==
    LET e == JVal(WireDueFull) IN
       {JObj(RemoveAt(e, i)) : i \in 1..Len(e)}
  \cup {JObj(ReplaceAt(e, i, j)) : i \in 1..Len(e), j \in {JNull, JNum(3)}}
  \cup {JObj(Reverse(e)), JObj(Append(e, e[1])),
        JArr(<<JStr("x"), JNull, JStr("y"), JNull>>),
        JArr(<<JStr("x"), JNull>>),
        JArr(<<JStr("x"), JNull, JNull, JNull, JNull>>)}

AltsFor(key) == IF key = "due" THEN BasicAlts \cup DueAlts ELSE BasicAlts

\* the documents one edit away from the object w: an entry removed, a value
\* replaced, an entry repeated, an unknown key added, the order reversed
Edits(w) ==
    LET e == JVal(w) IN
       {JObj(RemoveAt(e, i)) : i \in 1..Len(e)}
  \cup UNION {{JObj(ReplaceAt(e, i, j)) : j \in AltsFor(e[i][1])} :
                i \in 1..Len(e)}
  \cup {JObj(Append(e, e[i])) : i \in 1..Len(e)}
  \cup {JObj(Append(e, <<"unknown", JNum(3)>>)), JObj(Reverse(e))}

RECURSIVE EditN(_, _)
EditN(S, n) ==
    IF n = 0 THEN S ELSE EditN(S \cup UNION {Edits(w) : w \in S}, n - 1)

\* the documents the decoder is checked on
WireInputs == EditN({WireFull, WireMinimal}, MaxEdits)

\* the documents the full state machine decodes: the test's document, the
\* same with a priority outside 1...4, and the same without "completed"
WireSamples ==
    { WireFull,
      JObj(ReplaceKey(JVal(WireFull), "priority", JNum(7))),
      JObj(RemoveKey(JVal(WireFull), "completed")) }

\* the documents the Due machine decodes: the due object with date and
\* datetime, with date only, with string only, and no due object at all
WireDueSamples ==
    { WireFull,
      JObj(ReplaceKey(JVal(WireFull), "due",
                      JObj(RemoveKey(JVal(WireDueFull), "datetime")))),
      JObj(ReplaceKey(JVal(WireFull), "due",
                      JObj(<< <<"string", JStr("tomorrow at 12")>> >>))),
      WireMinimal }

(* --------------------------- the state machine ------------------------- *)

Call(op, arg, status, out) ==
    [op |-> op, arg |-> arg, status |-> status, out |-> out]

\* a panic ends the program: nothing runs after it
Running == result.status # "panic"

Init ==
    /\ task \in {TaskCreate(c) : c \in Contents}
    /\ due \in {DueCreate(s) : s \in DueTexts}
    /\ result = Call("Task::create", task.content, "ok", <<>>)
    /\ model_label_ids = <<>>

ActTaskCreate(c) ==
    /\ Running
    /\ task' = TaskCreate(c)
    /\ result' = Call("Task::create", c, "ok", <<>>)
    /\ model_label_ids' = <<>>
    /\ UNCHANGED due

ActDueCreate(s) ==
    /\ Running
    /\ due' = DueCreate(s)
    /\ result' = Call("Due::create", s, "ok", <<>>)
    /\ UNCHANGED <<task, model_label_ids>>

ActSetString(s) ==
    /\ Running
    /\ due' = set_string(due, s)
    /\ result' = Call("set_string", s, "ok", <<>>)
    /\ UNCHANGED <<task, model_label_ids>>

ActSetDate(s) ==
    /\ Running
    /\ due' = set_date(due, s)
    /\ result' = Call("set_date", s, "ok", <<>>)
    /\ UNCHANGED <<task, model_label_ids>>

ActSetDatetime(s) ==
    /\ Running
    /\ due' = set_datetime(due, s)
    /\ result' = Call("set_datetime", s, "ok", <<>>)
    /\ UNCHANGED <<task, model_label_ids>>

\* task.set_due(Some(due.clone())) or task.set_due(None)
ActSetDue(d) ==
    /\ Running
    /\ task' = set_due(task, d)
    /\ result' = Call("set_due", d, "ok", <<>>)
    /\ UNCHANGED <<due, model_label_ids>>

\* due = task.due().unwrap(): the client takes the task's Due to work on it
ActTakeDue ==
    /\ Running
    /\ IsSome(task.due)
    /\ due' = Unwrap(task.due)
    /\ result' = Call("due", <<>>, "ok", task.due)
    /\ UNCHANGED <<task, model_label_ids>>

ActSetPriority(n) ==
    /\ Running
    /\ LET r == set_priority(task, n) IN
        /\ task' = r.task
        /\ result' = Call("set_priority", n,
                          IF r.panicked THEN "panic" ELSE "ok", <<>>)
    /\ UNCHANGED <<due, model_label_ids>>

RECURSIVE RefRemoveAll(_, _)
\* reference model of removeLabelId: delete every occurrence, keep the order
RefRemoveAll(s, x) ==
    IF s = <<>> THEN <<>>
    ELSE IF Head(s) = x THEN RefRemoveAll(Tail(s), x)
    ELSE <<Head(s)>> \o RefRemoveAll(Tail(s), x)

ActAddLabelId(x) ==
    /\ Running
    /\ Len(task.label_ids) < MaxLabels
    /\ task' = add_label_id(task, x)
    /\ result' = Call("add_label_id", x, "ok", <<>>)
    /\ model_label_ids' = model_label_ids \o <<x>>
    /\ UNCHANGED due

ActRemoveLabelId(x) ==
    /\ Running
    /\ task' = remove_label_id(task, x)
    /\ result' = Call("remove_label_id", x, "ok", <<>>)
    /\ model_label_ids' = RefRemoveAll(model_label_ids, x)
    /\ UNCHANGED due

ActSetContent(c) ==
    /\ Running
    /\ task' = set_content(task, c)
    /\ result' = Call("set_content", c, "ok", <<>>)
    /\ UNCHANGED <<due, model_label_ids>>

ActSetCompleted(b) ==
    /\ Running
    /\ task' = set_completed(task, b)
    /\ result' = Call("set_completed", b, "ok", <<>>)
    /\ UNCHANGED <<due, model_label_ids>>

\* serde_json::to_string(&task)
ActToString ==
    /\ Running
    /\ result' = Call("to_string", <<>>, "ok", Serialize(task))
    /\ UNCHANGED <<task, due, model_label_ids>>

\* what a from_str call leaves: the decoded Task on Ok, the old one on Err
Decoded(r) ==
    /\ task' = IF r.ok THEN r.val ELSE task
    /\ model_label_ids' = IF r.ok THEN r.val.label_ids ELSE model_label_ids

\* task = serde_json::from_str(w)?
ActFromStr(w) ==
    /\ Running
    /\ LET r == DeserializeTask(w) IN
        /\ Decoded(r)
        /\ result' = Call("from_str", w, IF r.ok THEN "ok" ELSE "err", r)
    /\ UNCHANGED due

\* task = serde_json::from_str(&serde_json::to_string(&task)?)?
ActRoundTrip ==
    /\ Running
    /\ LET r == DeserializeTask(JObj(Serialize(task))) IN
        /\ Decoded(r)
        /\ result' = Call("round_trip", <<>>, IF r.ok THEN "ok" ELSE "err", r)
    /\ UNCHANGED due

(* The whole client: every operation, on the smallest inputs that tell the   *)
(* operations' outcomes apart.                                               *)
Next ==
    \/ \E c \in Contents : ActTaskCreate(c)
    \/ \E s \in {"tomorrow at noon"} : ActDueCreate(s)
    \/ \E s \in {"tomorrow at noon"} : ActSetString(s)
    \/ \E s \in {"2017-12-25"} : ActSetDate(s)
    \/ \E s \in {"2017-12-25"} : ActSetDatetime(s)
    \/ \E d \in {None, Some(due)} : ActSetDue(d)
    \/ ActTakeDue
    \/ \E n \in Priorities : ActSetPriority(n)
    \/ \E x \in {4} : ActAddLabelId(x)
    \/ \E x \in {4, 124} : ActRemoveLabelId(x)
    \/ \E c \in Contents : ActSetContent(c)
    \/ \E b \in BOOLEAN : ActSetCompleted(b)
    \/ ActToString
    \/ \E w \in WireSamples : ActFromStr(w)
    \/ ActRoundTrip

Spec == Init /\ [][Next]_vars

(* The Due value and its way into the write model: the Due operations on     *)
(* every text, set_due, decoding and encoding.                               *)
NextDue ==
    \/ \E s \in DueTexts : ActDueCreate(s)
    \/ \E s \in DueTexts : ActSetString(s)
    \/ \E s \in DueTexts : ActSetDate(s)
    \/ \E s \in DueTexts : ActSetDatetime(s)
    \/ \E d \in {None, Some(due)} : ActSetDue(d)
    \/ ActTakeDue
    \/ ActToString
    \/ \E w \in WireDueSamples : ActFromStr(w)

SpecDue == Init /\ [][NextDue]_vars

(* The label list: create, decode, add and remove on every label id.         *)
NextLabels ==
    \/ \E c \in {"Test Task"} : ActTaskCreate(c)
    \/ \E x \in LabelIds : ActAddLabelId(x)
    \/ \E x \in LabelIds \cup {124} : ActRemoveLabelId(x)
    \/ \E w \in {WireFull} : ActFromStr(w)

SpecLabels == Init /\ [][NextLabels]_vars

(* The decoder: a fresh client decodes one document.                         *)
NextDecode ==
    /\ result.op = "Task::create"
    /\ \E w \in WireInputs : ActFromStr(w)

SpecDecode == Init /\ [][NextDecode]_vars

(* ------------------------------ properties ----------------------------- *)

DueKeys == {"due_datetime", "due_date", "due_string", "due_lang"}

ServerOnlyKeys == {"id", "indent", "url", "comment_count"}

KeysOf(out) == [i \in 1..Len(out) |-> out[i][1]]

\* the due_* entries of an encoded write model, in order
DuePart(out) == SelectSeq(out, LAMBDA e : e[1] \in DueKeys)

\* C1: whatever produced the Task, to_string emits only due_datetime when
\* due and its datetime are set (date set or not), only due_date when due is
\* set with a date and no datetime, due_string with due_lang = "en" when due
\* has neither, and no due_* field when due is unset.
C1_DuePrecedence ==
    result.op = "to_string" =>
        LET part == DuePart(result.out) IN
        IF ~IsSome(task.due) THEN part = <<>>
        ELSE LET d == Unwrap(task.due) IN
             /\ IsSome(d.datetime) =>
                    part = << <<"due_datetime", JStr(Unwrap(d.datetime))>> >>
             /\ (~IsSome(d.datetime) /\ IsSome(d.date)) =>
                    part = << <<"due_date", JStr(Unwrap(d.date))>> >>
             /\ (~IsSome(d.datetime) /\ ~IsSome(d.date)) =>
                    part = << <<"due_string", JStr(d.string)>>,
                              <<"due_lang", JStr("en")>> >>

\* a Task whose due has both date and datetime set has been encoded
C1_Witness ==
    /\ result.op = "to_string"
    /\ IsSome(task.due)
    /\ IsSome(Unwrap(task.due).datetime)
    /\ IsSome(Unwrap(task.due).date)

\* C2: the keys of the encoded write model start with content, project_id,
\* order, label_ids, priority in that order, only due_* keys follow, and id,
\* indent, url and comment_count never appear.
C2_WriteModelKeys ==
    result.op = "to_string" =>
        LET k == KeysOf(result.out) IN
        /\ Len(k) >= 5
        /\ SubSeq(k, 1, 5) =
              <<"content", "project_id", "order", "label_ids", "priority">>
        /\ \A i \in 6..Len(k) : k[i] \in DueKeys
        /\ \A i \in 1..Len(k) : k[i] \notin ServerOnlyKeys

\* a Task holding server-assigned values has been encoded
C2_Witness ==
    /\ result.op = "to_string"
    /\ IsSome(task.id)
    /\ IsSome(task.indent)
    /\ IsSome(task.url)
    /\ IsSome(task.comment_count)

\* C3: set_priority(n) replaces priority with n when n is in 1..4 and for
\* every other n reports a recoverable error, the program going on.
C3_SetPriorityRecoverable ==
    result.op = "set_priority" =>
        IF result.arg \in 1..4
        THEN result.status = "ok" /\ task.priority = result.arg
        ELSE result.status = "err"

\* C4: the priority of every reachable Task is one of 1, 2, 3, 4.
C4_PriorityInRange == task.priority \in 1..4

\* C5 as stated: from_str(to_string(t)) is a Task whose id, order, indent,
\* url and comment_count are unset.
C5_RoundTripDropsServerFields ==
    result.op = "round_trip" =>
        /\ result.status = "ok"
        /\ result.out.val.id = None
        /\ result.out.val.order = None
        /\ result.out.val.indent = None
        /\ result.out.val.url = None
        /\ result.out.val.comment_count = None

\* C5 amended: to_string(t) holds none of id, indent, url, comment_count and
\* no completed either, so from_str(to_string(t)) is no Task at all: it
\* fails for the missing field completed.
C5_RoundTripFails ==
    result.op = "round_trip" =>
        /\ result.status = "err"
        /\ result.out = Err("missing field", "completed")
        /\ \A i \in 1..Len(Serialize(task)) :
              Serialize(task)[i][1] \notin ServerOnlyKeys \cup {"completed"}

\* a Task holding server-assigned values has gone through the round trip
C5_Witness ==
    /\ result.op = "round_trip"
    /\ IsSome(task.id)
    /\ IsSome(task.order)

\* C7: after any sequence of add_label_id and remove_label_id calls the
\* label_ids of the Task are those of the reference model (append at the
\* end; delete every occurrence and keep the order of the rest).
C7_LabelsFollowReference == task.label_ids = model_label_ids

\* adding 10, 4, 1 and removing 4 has left [10, 1]
C7_Witness ==
    /\ result.op = "remove_label_id"
    /\ result.arg = 4
    /\ task.label_ids = <<10, 1>>

\* C8: set_date(d) leaves string = d, date = d and datetime, timezone unset;
\* set_datetime(t) leaves string = t, datetime = t and date, timezone unset.
C8_SetDateSetDatetime ==
    /\ result.op = "set_date" =>
          due = [string |-> result.arg, date |-> Some(result.arg),
                 datetime |-> None, timezone |-> None]
    /\ result.op = "set_datetime" =>
          due = [string |-> result.arg, date |-> None,
                 datetime |-> Some(result.arg), timezone |-> None]

\* set_date has acted on a Due while the task still carries the decoded Due
\* (date, datetime and timezone set) it was taken from
C8_Witness ==
    /\ result.op = "set_date"
    /\ IsSome(due.date)
    /\ IsSome(task.due)
    /\ IsSome(Unwrap(task.due).timezone)

\* C9: set_string(s) leaves string = s and date, datetime, timezone unset,
\* and a Task carrying this Due encodes due_string = s with due_lang and
\* neither due_date nor due_datetime.
C9_SetStringClears ==
    result.op = "set_string" =>
        /\ due = [string |-> result.arg, date |-> None, datetime |-> None,
                  timezone |-> None]
        /\ DuePart(Serialize(set_due(task, Some(due)))) =
              << <<"due_string", JStr(result.arg)>>,
                 <<"due_lang", JStr("en")>> >>

\* set_string has acted while the task carries a decoded Due with a date
C9_Witness ==
    /\ result.op = "set_string"
    /\ IsSome(task.due)
    /\ IsSome(Unwrap(task.due).date)

\* C10: Task::create(c) has content c, priority 1, completed false, no
\* labels and every optional field unset; Due::create(s) has string s and
\* date, datetime, timezone unset.
C10_CreateDefaults ==
    /\ result.op = "Task::create" =>
          /\ task.content = result.arg
          /\ task.priority = 1
          /\ task.completed = FALSE
          /\ task.label_ids = <<>>
          /\ \A f \in {"id", "project_id", "order", "indent", "due", "url",
                       "comment_count"} : task[f] = None
    /\ result.op = "Due::create" =>
          /\ due.string = result.arg
          /\ due.date = None /\ due.datetime = None /\ due.timezone = None

\* Task::create has run again in a client whose Due was already modified
C10_Witness ==
    /\ result.op = "Task::create"
    /\ task.content = "My task"
    /\ IsSome(due.datetime)

\* the positions of a key among the entries of an object
Occurrences(entries, key) == {i \in 1..Len(entries) : entries[i][1] = key}

ValueOf(entries, key) == entries[CHOOSE i \in Occurrences(entries, key) : TRUE][2]

IsU32(j) == JType(j) = "num" /\ JVal(j) >= 0

\* the value j is one a field of a scalar or list type accepts
HasPlainType(ty, j) ==
    CASE ty = "u32" -> IsU32(j)
      [] ty = "string" -> JType(j) = "str"
      [] ty = "bool" -> JType(j) = "bool"
      [] ty = "vec_u32" ->
            JType(j) = "arr" /\ \A i \in 1..Len(JVal(j)) : IsU32(JVal(j)[i])
      [] ty = "opt_u32" -> JType(j) = "null" \/ IsU32(j)
      [] ty = "opt_string" -> JType(j) \in {"null", "str"}
      [] OTHER -> FALSE

\* every field of the schema occurs at most once, occurs when it is required
\* and, when it occurs, holds a value of its type
GoodObject(schema, entries, HasType(_, _)) ==
    \A i \in 1..Len(schema) :
        LET occ == Occurrences(entries, schema[i][1]) IN
        /\ Cardinality(occ) <= 1
        /\ occ = {} => IsOptionType(schema[i][2])
        /\ occ # {} => HasType(schema[i][2], ValueOf(entries, schema[i][1]))

\* a due value: an object, or the array of exactly its four fields in order
GoodDue(j) ==
    \/ JType(j) = "obj" /\ GoodObject(DueSchema, JVal(j), HasPlainType)
    \/ /\ JType(j) = "arr"
       /\ Len(JVal(j)) = Len(DueSchema)
       /\ \A i \in 1..Len(DueSchema) :
             HasPlainType(DueSchema[i][2], JVal(j)[i])

HasFieldType(ty, j) ==
    IF ty = "opt_due" THEN JType(j) = "null" \/ GoodDue(j)
    ELSE HasPlainType(ty, j)

GoodTask(w) == GoodObject(TaskSchema, JVal(w), HasFieldType)

\* the value a well-typed scalar or list denotes
PlainValue(ty, j) ==
    CASE ty \in {"u32", "string", "bool"} -> JVal(j)
      [] ty = "vec_u32" -> [i \in 1..Len(JVal(j)) |-> JVal(JVal(j)[i])]
      [] ty \in {"opt_u32", "opt_string"} ->
            IF JType(j) = "null" THEN None ELSE Some(JVal(j))

\* the field a well-typed object gives: unset when the key is absent
PlainField(schema, entries, key) ==
    IF Occurrences(entries, key) = {} THEN None
    ELSE PlainValue(FieldType(schema, key), ValueOf(entries, key))

DueValue(j) ==
    IF JType(j) = "obj"
    THEN [f \in FieldNames(DueSchema) |-> PlainField(DueSchema, JVal(j), f)]
    ELSE [f \in FieldNames(DueSchema) |->
            LET i == CHOOSE k \in 1..Len(DueSchema) : DueSchema[k][1] = f
            IN  PlainValue(DueSchema[i][2], JVal(j)[i])]

\* the Task a well-typed document denotes, field by field
ExpectedTask(w) ==
    [f \in FieldNames(TaskSchema) |->
        IF f = "due"
        THEN IF Occurrences(JVal(w), f) = {} THEN None
             ELSE IF JType(ValueOf(JVal(w), f)) = "null" THEN None
             ELSE Some(DueValue(ValueOf(JVal(w), f)))
        ELSE PlainField(TaskSchema, JVal(w), f)]

\* a required field is missing or holds a value of the wrong type
RequiredBad(w) ==
    LET e == JVal(w) IN
    \/ \E f \in {"content", "completed", "priority", "label_ids"} :
          \/ Occurrences(e, f) = {}
          \/ ~HasPlainType(FieldType(TaskSchema, f), ValueOf(e, f))
    \/ /\ Occurrences(e, "due") # {}
       /\ JType(ValueOf(e, "due")) = "obj"
       /\ LET d == JVal(ValueOf(e, "due")) IN
          \/ Occurrences(d, "string") = {}
          \/ JType(ValueOf(d, "string")) # "str"

\* C6 as stated: decoding fails exactly when a required field (content,
\* completed, priority, label_ids, or string inside a present due object) is
\* missing or has the wrong type.
C6_FailsOnlyOnRequired ==
    result.op = "from_str" =>
        (result.status = "err" <=> RequiredBad(result.arg))

\* C6 amended: decoding a wire object fails exactly when a required field is
\* missing, or a field the Task or its due knows, required or optional,
\* holds a value of the wrong type (null being wrong for required fields
\* only, a negative number for every integer, and a due being an object or
\* the array of exactly its four fields), or a known key occurs twice;
\* otherwise it succeeds whatever the order of the fields, every known field
\* goes 1:1 into the Task, an absent optional field is unset and unknown
\* fields are ignored.
C6_DecodeOutcome ==
    result.op = "from_str" =>
        /\ result.status = "ok" <=> GoodTask(result.arg)
        /\ result.status = "ok" => task = ExpectedTask(result.arg)

\* a document in reversed field order, with an unknown field inside due, has
\* been decoded into a Task
C6_Witness ==
    /\ result.op = "from_str"
    /\ result.status = "ok"
    /\ result.arg = JObj(Reverse(JVal(WireFull)))
    /\ task.id = Some(1234)

\* the string of a Due mirrors its authoritative structured field
NotStale(d) ==
    /\ IsSome(d.datetime) => d.string = Unwrap(d.datetime)
    /\ (~IsSome(d.datetime) /\ IsSome(d.date)) => d.string = Unwrap(d.date)

DueWriters == {"Due::create", "set_string", "set_date", "set_datetime"}

\* C11 as stated: in every Due value reachable through create, the setters
\* and decoding, string equals datetime when datetime is set and equals date
\* when only date is set.
C11_NeverStale ==
    /\ NotStale(due)
    /\ IsSome(task.due) => NotStale(Unwrap(task.due))

\* C11 amended: every Due value left by create, set_string, set_date or
\* set_datetime, whatever Due the call acted on (a decoded one included),
\* has string equal to datetime when datetime is set and equal to date when
\* only date is set; a decoded Due keeps the string of the wire as it is.
C11_NotStaleAfterSetter == result.op \in DueWriters => NotStale(due)

\* set_datetime has acted while the task carries a decoded Due whose string
\* is not its datetime
C11_Witness ==
    /\ result.op = "set_datetime"
    /\ IsSome(due.datetime)
    /\ IsSome(task.due)
    /\ ~NotStale(Unwrap(task.due))

TaskFields ==
    {"id", "project_id", "content", "completed", "label_ids", "order",
     "indent", "priority", "due", "url", "comment_count"}

\* the one field each mutator may change
OwnField(op) ==
    CASE op = "set_content" -> "content"
      [] op = "set_completed" -> "completed"
      [] op = "set_priority" -> "priority"
      [] op \in {"add_label_id", "remove_label_id"} -> "label_ids"
      [] op = "set_due" -> "due"

Mutators ==
    {"set_content", "set_completed", "set_priority", "add_label_id",
     "remove_label_id", "set_due"}

\* the step is a call of a Task mutator and every field of the Task but the
\* mutator's own keeps its value
FrameStep ==
    result'.op \in Mutators =>
        \A f \in TaskFields \ {OwnField(result'.op)} : task'[f] = task[f]

\* C12: each Task mutator changes only its own field (set_content content,
\* set_completed completed, set_priority priority, add_label_id and
\* remove_label_id label_ids, set_due due), every other field, the
\* server-assigned ones in particular, keeping its value across every call.
C12_MutatorFrame == [][FrameStep]_vars

\* set_content has replaced the content of a decoded Task that still holds
\* its server-assigned values
C12_Witness ==
    /\ result.op = "set_content"
    /\ task.content = "Test Task"
    /\ task.id = Some(1234)
    /\ task.url = Some("https://todoist.com/showTask?id=12345")
    /\ IsSome(task.due)

====
